---- MODULE Spec2Model ----
(***************************************************************************)
(* Model of the voice pipeline generated by Scripts/setup_kokoro.py (the   *)
(* kokoro_server.py text-to-speech server) and Scripts/setup_vosk.py (the  *)
(* test_vosk.py recognition loop).                                         *)
(*                                                                         *)
(* SpecTTS : the server's module globals (model, config), load_model run   *)
(*           statement by statement, and the four HTTP handlers, each one  *)
(*           atomic (a handler reads the global `model` exactly once).     *)
(*           The handlers and load_model are the operations of the         *)
(*           service; they are callable in any order, and the Flask        *)
(*           development server handles requests on threads, so a handler  *)
(*           may run between two statements of load_model.                 *)
(* SpecRec : the recognition loop of test_vosk_model over the chunks the   *)
(*           capture stream delivers.  The Vosk engine is an external      *)
(*           library: what AcceptWaveform / Result / PartialResult answer  *)
(*           for a chunk is an input of the model.                         *)
(***************************************************************************)
EXTENDS Integers, Sequences, FiniteSets, TLC

VARIABLES
    model,       \* kokoro_server global `model`: None or the loaded object
    config,      \* kokoro_server global `config`: None or the parsed config
    modelFile,   \* kokoro_models/kokoro_model.pth on disk
    configFile,  \* kokoro_models/config.json on disk
    ld,          \* the load_model call: position, phase and globals at entry,
                 \* outcome
    phase,       \* lifecycle of the service as its callers see it
    everOk,      \* some load_model call has returned normally
    resp,        \* the HTTP response being returned by a handler, if any
    memo,        \* one earlier successful synthesize_speech result
    tmpFiles,    \* temporary .wav files present on disk
    inflight,    \* audio responses still being transferred to their caller
    rec,         \* recognition loop: position, stream and engine
    events,      \* what the recognition loop has printed, in order
    host,        \* the machine a setup script runs on: interpreter, dotnet
    su,          \* one run of a setup script's main()
    vm,          \* one call of setup_vosk_models
    srv          \* the kokoro_server.py process

ttsVars == <<model, config, modelFile, configFile, ld, phase, everOk, resp,
             memo, tmpFiles, inflight>>
recVars == <<rec, events>>
setupVars == <<host, su, vm, srv>>
vars == <<ttsVars, recVars, setupVars>>

None == "None"

(***************************************************************************)
(* Bounds of the model.                                                    *)
(***************************************************************************)
MaxTmpFiles == 2
ShortLen == 0
OverLen == 1
MaxChunks == 5
MaxMinor == 11

(***************************************************************************)
(* Program constants.                                                      *)
(***************************************************************************)
MaxTextLength == 1000
SampleRate == 22050
TestTextLen == 22
TotalSteps == 9
NumKokoroReqs == 9

(***************************************************************************)
(* Values.                                                                 *)
(***************************************************************************)
\* kokoro_model.pth: missing, not deserializable, deserializable to an object
\* without eval() (a bare state dict), or one of two proper artifacts.
ModelFiles == {"absent", "corrupt", "noeval", "m1", "m2"}
\* config.json: missing, not valid JSON, or a configuration.
ConfigFiles == {"absent", "badjson", "c1"}

\* The ids get_voices returns.
VoiceCatalog == {"default", "female1", "male1"}

TextLens == (0 .. ShortLen) \cup (MaxTextLength .. (MaxTextLength + OverLen))
ReqVoices == {"absent", "robot"}
ReqSpeeds == {1, 2}

\* Bodies of POST /synthesize: no body at all, the empty object, an object
\* without "text", an object whose "text" is null, an object with a string.
TextRequests ==
    [kind : {"text"}, len : TextLens, voice : ReqVoices, speed : ReqSpeeds]
NoReq == [kind |-> "none", len |-> 0, voice |-> "absent", speed |-> 1]
OtherRequests ==
    {[NoReq EXCEPT !.kind = k] : k \in {"nobody", "emptyobj", "notext", "nulltext"}}
Requests == TextRequests \cup OtherRequests

Str(n) == [kind |-> "str", len |-> n]

(***************************************************************************)
(* load_model, one action per statement.                                   *)
(***************************************************************************)
IdleLoad ==
    [pc |-> "idle", phase0 |-> "Uninitialized", model0 |-> None,
     config0 |-> None, outcome |-> "none"]

\* The exception leaves load_model: whatever was assigned so far stays.
LoadRaise(l) ==
    /\ ld' = [l EXCEPT !.pc = "idle", !.outcome = "raised"]
    /\ phase' = "Failed"
    /\ UNCHANGED everOk

LoadCall ==
    /\ resp.op = "none"
    /\ ld.pc = "idle"
    /\ ld' = [pc |-> "L109", phase0 |-> phase, model0 |-> model,
              config0 |-> config, outcome |-> "none"]
    /\ phase' = "Loading"
    /\ UNCHANGED <<model, config, modelFile, configFile, everOk, resp, memo,
                   tmpFiles, inflight, recVars, setupVars>>

FilesMissing == modelFile = "absent" \/ configFile = "absent"

LoadCheckFiles ==
    /\ resp.op = "none"
    /\ ld.pc = "L109"
    /\ IF FilesMissing
         THEN LoadRaise(ld)
         ELSE /\ ld' = [ld EXCEPT !.pc = "L113"]
              /\ UNCHANGED <<phase, everOk>>
    /\ UNCHANGED <<model, config, modelFile, configFile, resp, memo,
                   tmpFiles, inflight, recVars, setupVars>>

LoadReadConfig ==
    /\ resp.op = "none"
    /\ ld.pc = "L113"
    /\ IF configFile \in {"absent", "badjson"}
         THEN LoadRaise(ld) /\ UNCHANGED config
         ELSE /\ config' = configFile
              /\ ld' = [ld EXCEPT !.pc = "L118"]
              /\ UNCHANGED <<phase, everOk>>
    /\ UNCHANGED <<model, modelFile, configFile, resp, memo, tmpFiles,
                   inflight, recVars, setupVars>>

LoadTorch ==
    /\ resp.op = "none"
    /\ ld.pc = "L118"
    /\ IF modelFile \in {"absent", "corrupt"}
         THEN /\ LoadRaise(ld)
              /\ UNCHANGED model
         ELSE /\ model' = modelFile
              /\ ld' = [ld EXCEPT !.pc = "L119"]
              /\ UNCHANGED <<phase, everOk>>
    /\ UNCHANGED <<config, modelFile, configFile, resp, memo, tmpFiles,
                   inflight, recVars, setupVars>>

HasEval(m) == m \in {"m1", "m2"}

LoadEval ==
    /\ resp.op = "none"
    /\ ld.pc = "L119"
    /\ IF HasEval(model)
         THEN /\ ld' = [ld EXCEPT !.pc = "idle", !.outcome = "ok"]
              /\ phase' = "Ready"
              /\ everOk' = TRUE
         ELSE LoadRaise(ld)
    /\ UNCHANGED <<model, config, modelFile, configFile, resp, memo,
                   tmpFiles, inflight, recVars, setupVars>>

\* The artifact directories the environment produces: nothing downloaded, an
\* unreadable config beside a model, a readable config beside each model file.
Artifacts ==
    {<<"absent", "absent">>, <<"m1", "badjson">>, <<"corrupt", "c1">>,
     <<"noeval", "c1">>, <<"m1", "c1">>, <<"m2", "c1">>}

\* The environment puts, replaces or removes the model artifact.
InstallArtifact ==
    /\ resp.op = "none"
    /\ \E a \in Artifacts :
          /\ a # <<modelFile, configFile>>
          /\ modelFile' = a[1]
          /\ configFile' = a[2]
    /\ UNCHANGED <<model, config, ld, phase, everOk, resp, memo,
                   tmpFiles, inflight, recVars, setupVars>>

(***************************************************************************)
(* synthesize_speech and the HTTP handlers.                                *)
(***************************************************************************)
\* int(sample_rate * duration) with duration = len(text) * 0.1
AudioLength(n) == (SampleRate * n) \div 10

synthesize_speech_EngineLength(text, voice_id, speed) ==
    IF model = None
      THEN [synth |-> "ModelNotLoaded", rate |-> 0, alen |-> 0]
      ELSE [synth |-> "ok", rate |-> SampleRate,
            alen |-> AudioLength(text.len) + (IF model = "m2" THEN 1 ELSE 0)]

\* What synthesize_speech returns or raises; voice_id and speed are accepted
\* and not used by the placeholder synthesis.
synthesize_speech(text, voice_id, speed) ==
    IF model = None
      THEN [synth |-> "ModelNotLoaded", rate |-> 0, alen |-> 0]
      ELSE IF text.kind # "str"
        THEN [synth |-> "SynthesisFailure", rate |-> 0, alen |-> 0]
        ELSE [synth |-> "ok", rate |-> SampleRate, alen |-> AudioLength(text.len)]

\* request.get_json(): the parsed body.  With no body Flask either returns
\* None (no JSON content type, Flask < 2.1) or raises an HTTP error (JSON
\* content type with an empty body; any missing JSON body from Flask 2.1 on).
get_json(req) ==
    IF req.kind = "nobody" THEN {"None", "raise"} ELSE {"value"}

\* if not data or 'text' not in data
TextMissing(data, req) ==
    data = "None" \/ req.kind \in {"emptyobj", "notext"}

TextTooLong_OffByOne(n) == n > MaxTextLength + 1

\* if len(text) > 1000
TextTooLong(n) == n > MaxTextLength

\* voice_id = data.get('voice_id', 'default')
VoiceOf(req) == IF req.voice = "absent" THEN "default" ELSE req.voice

Response(op, req, status, err, mime, sy, loaded) ==
    [op |-> op, req |-> req, status |-> status, err |-> err, mime |-> mime,
     synth |-> sy.synth, rate |-> sy.rate, alen |-> sy.alen,
     loaded |-> loaded, phase |-> phase]

NotCalled == [synth |-> "notcalled", rate |-> 0, alen |-> 0]
NoResp == Response("none", NoReq, 0, "", "", NotCalled, FALSE)

\* The response of POST /synthesize to body req, when get_json answers data
\* and torchaudio.save succeeds or not.
synthesize(req, data, saveOk) ==
    IF data = "raise"
      THEN Response("synthesize", req, 500, "BadRequest", "json", NotCalled, FALSE)
    ELSE IF TextMissing(data, req)
      THEN Response("synthesize", req, 400, "TextRequired", "json", NotCalled, FALSE)
    ELSE IF req.kind = "nulltext"
      THEN Response("synthesize", req, 500, "TypeError", "json", NotCalled, FALSE)
    ELSE IF TextTooLong(req.len)
      THEN Response("synthesize", req, 400, "TextTooLong", "json", NotCalled, FALSE)
    ELSE LET sy == synthesize_speech(Str(req.len), VoiceOf(req), req.speed) IN
      IF sy.synth # "ok"
        THEN Response("synthesize", req, 500, sy.synth, "json", sy, FALSE)
      ELSE IF ~saveOk
        THEN Response("synthesize", req, 500, "SaveFailed", "json", sy, FALSE)
      ELSE Response("synthesize", req, 200, "", "audio/wav", sy, FALSE)

\* tempfile.NamedTemporaryFile(suffix='.wav', delete=False): the request got
\* as far as creating its temporary file.
CreatesTempFile(r) == r.synth = "ok"

NoMemo == [set |-> FALSE, len |-> 0, voice |-> "default", speed |-> 1,
           rate |-> 0, alen |-> 0]
Remember(r) ==
    [set |-> TRUE, len |-> r.req.len, voice |-> VoiceOf(r.req),
     speed |-> r.req.speed, rate |-> r.rate, alen |-> r.alen]

\* memo keeps one earlier successful synthesis of POST /synthesize, chosen
\* freely among the responses that have been returned.
KeepMemo(r, keep) ==
    IF keep /\ r.op = "synthesize" /\ r.synth = "ok" /\ ~memo.set
      THEN Remember(r)
      ELSE memo

Synthesize ==
    /\ resp.op = "none"
    /\ tmpFiles < MaxTmpFiles
    /\ \E req \in Requests : \E data \in get_json(req) : \E saveOk \in BOOLEAN :
          LET r == synthesize(req, data, saveOk) IN
          /\ (~CreatesTempFile(r)) => saveOk
          /\ resp' = r
          /\ tmpFiles' = IF CreatesTempFile(r) THEN tmpFiles + 1 ELSE tmpFiles
          /\ inflight' = IF r.status = 200 THEN inflight + 1 ELSE inflight
    /\ UNCHANGED <<model, config, modelFile, configFile, ld, phase, everOk,
                   memo, recVars, setupVars>>

\* The caller has received the whole audio response.
Consume ==
    /\ resp.op = "none"
    /\ inflight > 0
    /\ inflight' = inflight - 1
    /\ UNCHANGED <<model, config, modelFile, configFile, ld, phase, everOk,
                   resp, memo, tmpFiles, recVars, setupVars>>

\* The caller drops the connection in the middle of the transfer.
Abort ==
    /\ resp.op = "none"
    /\ inflight > 0
    /\ inflight' = inflight - 1
    /\ UNCHANGED <<model, config, modelFile, configFile, ld, phase, everOk,
                   resp, memo, tmpFiles, recVars, setupVars>>

health_check ==
    Response("health", NoReq, 200, "", "json", NotCalled, model # None)

HealthCheck ==
    /\ resp.op = "none"
    /\ resp' = health_check
    /\ UNCHANGED <<model, config, modelFile, configFile, ld, phase, everOk,
                   memo, tmpFiles, inflight, recVars, setupVars>>

get_voices == Response("voices", NoReq, 200, "", "json", NotCalled, FALSE)

GetVoices ==
    /\ resp.op = "none"
    /\ resp' = get_voices
    /\ UNCHANGED <<model, config, modelFile, configFile, ld, phase, everOk,
                   memo, tmpFiles, inflight, recVars, setupVars>>

TestReq == [kind |-> "text", len |-> TestTextLen, voice |-> "absent", speed |-> 1]

test_connection ==
    LET sy == synthesize_speech(Str(TestTextLen), "default", 1) IN
    IF sy.synth = "ok"
      THEN Response("test", TestReq, 200, "", "json", sy, FALSE)
      ELSE Response("test", TestReq, 500, sy.synth, "json", sy, FALSE)

TestConnection ==
    /\ resp.op = "none"
    /\ resp' = test_connection
    /\ UNCHANGED <<model, config, modelFile, configFile, ld, phase, everOk,
                   memo, tmpFiles, inflight, recVars, setupVars>>

\* The response has left the server: the handler's thread is done.
Deliver ==
    /\ resp.op # "none"
    /\ resp' = NoResp
    /\ \E keep \in BOOLEAN : memo' = KeepMemo(resp, keep)
    /\ UNCHANGED <<model, config, modelFile, configFile, ld, phase, everOk,
                   tmpFiles, inflight, recVars, setupVars>>

(***************************************************************************)
(* test_vosk_model: the recognition loop.                                  *)
(***************************************************************************)
\* Transcripts the engine may report; "" is what it reports for silence.
Texts == {"", "a", "b"}

\* pc: off (not called), loop (inside while True), done (returned);
\* next: the capture stream's next chunk; got: the chunks stream.read has
\* returned, in order; fed: the chunks handed to AcceptWaveform, in order;
\* utt: the utterance the engine is decoding;
\* open: the audio stream is open; err: an exception left the loop body;
\* ret: what test_vosk_model returned.
RecIdle ==
    [pc |-> "off", next |-> 1, got |-> <<>>, fed |-> <<>>, utt |-> 1,
     open |-> FALSE, err |-> FALSE, ret |-> "none"]

Event(kind, text, utt, chunk) ==
    [kind |-> kind, text |-> text, utt |-> utt, chunk |-> chunk]

LoopEvents_NoElse(boundary, text, utt, chunk) ==
    (IF boundary /\ text # "" THEN <<Event("Final", text, utt, chunk)>> ELSE <<>>)
    \o (IF text # "" THEN <<Event("Partial", text, utt, chunk)>> ELSE <<>>)

\* What the loop body prints for one chunk: boundary is the answer of
\* rec.AcceptWaveform(data), text the transcript of rec.Result() when it is
\* true and of rec.PartialResult() when not.
LoopEvents(boundary, text, utt, chunk) ==
    IF boundary
      THEN IF text # "" THEN <<Event("Final", text, utt, chunk)>> ELSE <<>>
      ELSE IF text # "" THEN <<Event("Partial", text, utt, chunk)>> ELSE <<>>

Feed_Twice(fed, chunk) == Append(Append(fed, chunk), chunk)

\* rec.AcceptWaveform(data): the chunk just read goes to the engine.
Feed(fed, chunk) == Append(fed, chunk)

\* test_vosk_model up to the loop: the model directory is missing, the
\* engine or the audio device cannot be initialised, or the loop is entered.
RecStart ==
    /\ rec.pc = "off"
    /\ \E how \in {"nomodel", "initfail", "ok"} :
          rec' = IF how = "ok"
                   THEN [rec EXCEPT !.pc = "loop", !.open = TRUE]
                   ELSE [rec EXCEPT !.pc = "done", !.ret = "False"]
    /\ UNCHANGED <<events, ttsVars, setupVars>>

\* One pass of the loop body without an exception.
RecChunk ==
    /\ rec.pc = "loop"
    /\ rec.next <= MaxChunks
    /\ \E boundary \in BOOLEAN, text \in Texts :
          /\ events' = events \o LoopEvents(boundary, text, rec.utt, rec.next)
          /\ rec' = [rec EXCEPT !.next = rec.next + 1,
                                  !.got = Append(rec.got, rec.next),
                                  !.fed = Feed(rec.fed, rec.next),
                                  !.utt = IF boundary THEN rec.utt + 1 ELSE rec.utt]
    /\ UNCHANGED <<ttsVars, setupVars>>

\* stream.read raises, or rec.AcceptWaveform(data) raises on the chunk just
\* read: the exception leaves the loop, finally closes the stream, the outer
\* handler prints the error and test_vosk_model returns False.
RecDecodeError ==
    /\ rec.pc = "loop"
    /\ rec.next <= MaxChunks
    /\ \E where \in {"read", "accept"} :
          rec' = IF where = "read"
                   THEN [rec EXCEPT !.pc = "done", !.open = FALSE,
                                    !.err = TRUE, !.ret = "False"]
                   ELSE [rec EXCEPT !.pc = "done", !.open = FALSE,
                                    !.err = TRUE, !.ret = "False",
                                    !.next = rec.next + 1,
                                    !.got = Append(rec.got, rec.next),
                                    !.fed = Feed(rec.fed, rec.next)]
    /\ UNCHANGED <<events, ttsVars, setupVars>>

\* Ctrl+C: the loop is left, finally closes the stream, True is returned.
RecInterrupt ==
    /\ rec.pc = "loop"
    /\ rec' = [rec EXCEPT !.pc = "done", !.open = FALSE, !.ret = "True"]
    /\ UNCHANGED <<events, ttsVars, setupVars>>

\* stream.read(4096, exception_on_overflow=False): when the loop falls behind
\* the device, the overflowing chunk is dropped without an error.
RecOverflow ==
    /\ rec.pc = "loop"
    /\ rec.next <= MaxChunks
    /\ rec' = [rec EXCEPT !.next = rec.next + 1]
    /\ UNCHANGED <<events, ttsVars, setupVars>>

(***************************************************************************)
(* The setup scripts: version checks and main() of setup_all.py,           *)
(* setup_vosk.py and setup_kokoro.py.                                      *)
(***************************************************************************)
\* Interpreters that can parse the scripts (they use f-strings): 3.6 and up.
PyVersions == {<<3, m>> : m \in 6 .. MaxMinor}
Hosts == [py : PyVersions, dotnet : BOOLEAN]

\* The right-hand sides the scripts compare sys.version_info with: (3, 8) is
\* a tuple, (3.8) and (3.7) are parenthesised floats.
TupleRhs(a, b) == [type |-> "tuple", major |-> a, minor |-> b]
FloatRhs(a, b) == [type |-> "float", major |-> a, minor |-> b]

\* sys.version_info < rhs: tuples compare lexicographically; a tuple and a
\* float do not compare, the operator raises TypeError.
LessThan(v, rhs) ==
    IF rhs.type = "tuple"
      THEN IF v[1] < rhs.major \/ (v[1] = rhs.major /\ v[2] < rhs.minor)
             THEN "True" ELSE "False"
      ELSE "TypeError"

\* The verdict of a check: accept, reject, or the exception that leaves it.
Verdict(cmp) ==
    IF cmp = "TypeError" THEN "TypeError"
    ELSE IF cmp = "True" THEN "reject" ELSE "accept"

\* setup_all.check_python_version: if sys.version_info < (3.8)
check_python_version_all(v) == Verdict(LessThan(v, FloatRhs(3, 8)))

\* setup_vosk.check_system_requirements: if sys.version_info < (3.7)
check_system_requirements(v) == Verdict(LessThan(v, FloatRhs(3, 7)))

\* setup_kokoro.check_python_version: if sys.version_info < (3, 8); a
\* rejection is sys.exit(1).
check_python_version_kokoro(v) == Verdict(LessThan(v, TupleRhs(3, 8)))

\* script: which main() runs; pc: the step about to run (0: finished);
\* n: requirements installed so far (setup_kokoro); steps: the steps that
\* have run; verdict: what the version check answered; status: the exit
\* status; how: sys.exit, an uncaught exception, or the normal end.
SuIdle ==
    [script |-> "none", pc |-> 0, n |-> 0, steps |-> <<>>, verdict |-> "none",
     status |-> "none", how |-> ""]

Scripts == {"all", "vosk", "kokoro"}

\* main() is entered (setup_all waits for Enter first).
SetupStart ==
    /\ su.script = "none"
    /\ vm.pc = "off"
    /\ \E sc \in Scripts : su' = [SuIdle EXCEPT !.script = sc, !.pc = 1]
    /\ UNCHANGED <<host, vm, srv, ttsVars, recVars>>

Exit1(r) == [r EXCEPT !.pc = 0, !.status = "1", !.how = "sys.exit"]
Crash(r) == [r EXCEPT !.pc = 0, !.status = "1", !.how = "traceback"]
Complete(r) == [r EXCEPT !.pc = 0, !.status = "0", !.how = "complete"]
Ran(r) == [r EXCEPT !.steps = Append(r.steps, r.pc)]

\* One step of setup_all.main.  Step 1 is the two checks (check_dotnet is
\* not called when the version check rejects); steps 2..8 only warn when
\* they fail; step 9 prints "Setup Complete!".
all_main(r, h) ==
    IF r.pc = 1
      THEN LET v == check_python_version_all(h.py)
               q == [Ran(r) EXCEPT !.verdict = v] IN
           IF v = "TypeError" THEN Crash(q)
           ELSE IF v = "reject" \/ ~h.dotnet THEN Exit1(q)
           ELSE [q EXCEPT !.pc = 2]
    ELSE IF r.pc < TotalSteps
      THEN [Ran(r) EXCEPT !.pc = r.pc + 1]
    ELSE Complete(Ran(r))

AllMainStep ==
    /\ su.script = "all"
    /\ su.pc > 0
    /\ su' = all_main(su, host)
    /\ UNCHANGED <<host, vm, srv, ttsVars, recVars>>

\* One step of setup_vosk.main: 1 check_system_requirements, 2
\* install_python_dependencies, 3 setup_vosk_models, 4 create_vosk_config,
\* 5 create_test_script.
vosk_main(r, h, installed) ==
    IF r.pc = 1
      THEN LET v == check_system_requirements(h.py)
               q == [Ran(r) EXCEPT !.verdict = v] IN
           IF v = "TypeError" THEN Crash(q)
           ELSE IF v = "reject" THEN Exit1(q)
           ELSE [q EXCEPT !.pc = 2]
    ELSE IF r.pc = 2 /\ ~installed THEN Exit1(Ran(r))
    ELSE IF r.pc < 5 THEN [Ran(r) EXCEPT !.pc = r.pc + 1]
    ELSE Complete(Ran(r))

VoskMainStep ==
    /\ su.script = "vosk"
    /\ su.pc > 0
    /\ \E installed \in BOOLEAN : su' = vosk_main(su, host, installed)
    /\ UNCHANGED <<host, vm, srv, ttsVars, recVars>>

\* One step of setup_kokoro.main: 1 check_python_version, 2
\* install_requirements (one requirement per step), 3 create_kokoro_server,
\* 4 create_startup_script.
kokoro_main(r, h, installed) ==
    IF r.pc = 1
      THEN LET v == check_python_version_kokoro(h.py)
               q == [Ran(r) EXCEPT !.verdict = v] IN
           IF v = "reject" THEN Exit1(q) ELSE [q EXCEPT !.pc = 2]
    ELSE IF r.pc = 2
      THEN IF ~installed THEN Exit1(Ran(r))
           ELSE IF r.n + 1 < NumKokoroReqs THEN [r EXCEPT !.n = r.n + 1]
           ELSE [Ran(r) EXCEPT !.n = r.n + 1, !.pc = 3]
    ELSE IF r.pc = 3 THEN [Ran(r) EXCEPT !.pc = 4]
    ELSE Complete(Ran(r))

KokoroMainStep ==
    /\ su.script = "kokoro"
    /\ su.pc > 0
    /\ \E installed \in BOOLEAN : su' = kokoro_main(su, host, installed)
    /\ UNCHANGED <<host, vm, srv, ttsVars, recVars>>

(***************************************************************************)
(* kokoro_server.py run as a program.                                      *)
(***************************************************************************)
\* The names bound in the module when line 95 runs (the imports and app),
\* and the functions defined below it.  Neither CORSS nor sys is among them.
ModuleNames ==
    {"os", "json", "tempfile", "Path", "Flask", "request", "jsonify",
     "send_file", "CORS", "torch", "torchaudio", "np", "app", "load_model",
     "synthesize_speech", "health_check", "get_voices", "synthesize",
     "test_connection"}

NameDefined(n) == n \in ModuleNames

SrvOff ==
    [pc |-> "off", at |-> "", loadCalled |-> FALSE, loadOk |-> FALSE,
     status |-> "none"]

\* load_model returns normally for this artifact directory.
Loadable(a) == HasEval(a[1]) /\ a[2] = "c1"

\* python kokoro_server.py: the module body runs (app = Flask(...), then
\* CORSS(app)); then the __main__ block calls load_model and app.run, or on
\* an exception prints it and calls sys.exit(1).  A name that is not bound
\* raises NameError; an uncaught exception ends the process with status 1.
run_server(a) ==
    IF ~NameDefined("CORSS")
      THEN [pc |-> "exited", at |-> "import", loadCalled |-> FALSE,
            loadOk |-> FALSE, status |-> "1"]
    ELSE IF Loadable(a)
      THEN [pc |-> "serving", at |-> "app.run", loadCalled |-> TRUE,
            loadOk |-> TRUE, status |-> "none"]
    ELSE [pc |-> "exited",
          at |-> IF NameDefined("sys") THEN "sys.exit" ELSE "except",
          loadCalled |-> TRUE, loadOk |-> FALSE, status |-> "1"]

\* The server written by setup_kokoro.py is started.
ServerStart ==
    /\ su.script = "kokoro"
    /\ su.how = "complete"
    /\ srv.pc = "off"
    /\ \E a \in Artifacts : srv' = run_server(a)
    /\ UNCHANGED <<host, su, vm, ttsVars, recVars>>

(***************************************************************************)
(* setup_vosk_models.                                                      *)
(***************************************************************************)
\* The three entries of `models`, in dictionary order.
VoskModels == <<"en-us-0.22", "small-en-us-0.15", "en-us-0.21">>

\* selected_models for a valid answer to the prompt (any other answer is
\* asked again).
Selected(choice) ==
    IF choice = "all" THEN VoskModels
    ELSE <<VoskModels[CASE choice = "1" -> 1 [] choice = "2" -> 2
                        [] choice = "3" -> 3]>>

Choices == {"all", "1", "2", "3"}

VmIdle ==
    [pc |-> "off", sel |-> <<>>, i |-> 1, dirs |-> {}, log |-> <<>>,
     ret |-> "none"]

process_model_UnlinkAfterDownload(m, exists, dlOk, exOk, partial) ==
    IF exists
      THEN [m |-> m, exists |-> TRUE, dl |-> "no", ex |-> "no", zip |-> "none"]
    ELSE IF ~dlOk
      THEN [m |-> m, exists |-> FALSE, dl |-> "fail", ex |-> "no",
            zip |-> IF partial THEN "left" ELSE "none"]
    ELSE [m |-> m, exists |-> FALSE, dl |-> "ok",
          ex |-> IF exOk THEN "ok" ELSE "fail", zip |-> "deleted"]

\* The loop body for model m: exists says its directory is there, dlOk and
\* exOk what download_with_progress and extract_model return, partial whether
\* a failed download left a file behind.  zip: none (no archive on disk),
\* left (archive on disk), deleted (zip_path.unlink() ran).
process_model(m, exists, dlOk, exOk, partial) ==
    IF exists
      THEN [m |-> m, exists |-> TRUE, dl |-> "no", ex |-> "no", zip |-> "none"]
    ELSE IF ~dlOk
      THEN [m |-> m, exists |-> FALSE, dl |-> "fail", ex |-> "no",
            zip |-> IF partial THEN "left" ELSE "none"]
    ELSE IF ~exOk
      THEN [m |-> m, exists |-> FALSE, dl |-> "ok", ex |-> "fail", zip |-> "left"]
    ELSE [m |-> m, exists |-> FALSE, dl |-> "ok", ex |-> "ok", zip |-> "deleted"]

\* setup_vosk_models is called, the user answers the prompt; dirs are the
\* model directories already under vosk_models/.
VoskModelsStart ==
    /\ su.script = "none"
    /\ vm.pc = "off"
    /\ \E choice \in Choices, dirs \in SUBSET {VoskModels[k] : k \in DOMAIN VoskModels} :
          vm' = [VmIdle EXCEPT !.pc = "loop", !.sel = Selected(choice),
                               !.dirs = dirs]
    /\ UNCHANGED <<host, su, srv, ttsVars, recVars>>

\* One pass of `for model_name in selected_models`, or the return True
\* after the last one.
VoskModelsStep ==
    /\ vm.pc = "loop"
    /\ IF vm.i > Len(vm.sel)
         THEN vm' = [vm EXCEPT !.pc = "done", !.ret = "True"]
         ELSE \E dlOk \in BOOLEAN, exOk \in BOOLEAN, partial \in BOOLEAN :
                 LET m == vm.sel[vm.i] IN
                 vm' = [vm EXCEPT
                          !.i = vm.i + 1,
                          !.log = Append(vm.log,
                             process_model(m, m \in vm.dirs, dlOk, exOk, partial))]
    /\ UNCHANGED <<host, su, srv, ttsVars, recVars>>

(***************************************************************************)
(* The text-to-speech service.                                             *)
(***************************************************************************)

IdleTTS ==
    /\ model = None
    /\ config = None
    /\ modelFile = "absent"
    /\ configFile = "absent"
    /\ ld = IdleLoad
    /\ phase = "Uninitialized"
    /\ everOk = FALSE
    /\ resp = NoResp
    /\ memo = NoMemo
    /\ tmpFiles = 0
    /\ inflight = 0

IdleRec == rec = RecIdle /\ events = <<>>

IdleSetup == su = SuIdle /\ vm = VmIdle /\ srv = SrvOff

InitTTS ==
    /\ IdleTTS
    /\ IdleRec
    /\ IdleSetup
    /\ host = [py |-> <<3, 8>>, dotnet |-> TRUE]

NextTTS ==
    \/ InstallArtifact
    \/ LoadCall
    \/ LoadCheckFiles
    \/ LoadReadConfig
    \/ LoadTorch
    \/ LoadEval
    \/ HealthCheck
    \/ GetVoices
    \/ Synthesize
    \/ TestConnection
    \/ Deliver
    \/ Consume
    \/ Abort

SpecTTS == InitTTS /\ [][NextTTS]_vars

(***************************************************************************)
(* The recognition loop.                                                   *)
(***************************************************************************)
InitRec == InitTTS

NextRec ==
    \/ RecStart
    \/ RecChunk
    \/ RecDecodeError
    \/ RecInterrupt
    \/ RecOverflow

SpecRec == InitRec /\ [][NextRec]_vars

(***************************************************************************)
(* The setup scripts, the server start and setup_vosk_models.              *)
(***************************************************************************)
InitSetup ==
    /\ IdleTTS
    /\ IdleRec
    /\ IdleSetup
    /\ host \in Hosts

NextSetup ==
    \/ SetupStart
    \/ AllMainStep
    \/ VoskMainStep
    \/ KokoroMainStep
    \/ ServerStart
    \/ VoskModelsStart
    \/ VoskModelsStep

SpecSetup == InitSetup /\ [][NextSetup]_vars

(***************************************************************************)
(* Properties of the text-to-speech service (SpecTTS).                     *)
(***************************************************************************)
IsSynth == resp.op = "synthesize"
ValidText == resp.req.kind = "text" /\ resp.req.len <= MaxTextLength

\* C1: a POST /synthesize whose text is longer than 1000 characters is
\* answered 400 TextTooLong, whether or not the model is loaded, and
\* synthesize_speech is not called for it.
C1_TextTooLongRejected ==
    (IsSynth /\ resp.req.kind = "text" /\ resp.req.len > MaxTextLength)
        => /\ resp.status = 400
           /\ resp.err = "TextTooLong"
           /\ resp.synth = "notcalled"

C1_Witness ==
    /\ IsSynth
    /\ resp.req.kind = "text"
    /\ resp.req.len > MaxTextLength
    /\ model # None
    /\ resp.status = 400

\* C3: health reports model_loaded = false before any load_model call, true
\* after a load_model that succeeded, and never true unless some load_model
\* call has fully succeeded.
C3_HealthReflectsCompletedLoad ==
    resp.op = "health"
        => /\ (resp.phase = "Uninitialized" => ~resp.loaded)
           /\ (resp.phase = "Ready" => resp.loaded)
           /\ (resp.loaded => everOk)

\* C4: a load_model call made while the service is Ready performs no load
\* (never executes torch.load), leaves model and config unchanged and does
\* not raise.
C4_LoadIdempotent ==
    [][(ld.pc # "idle" /\ ld.phase0 = "Ready")
          => /\ model' = model
             /\ config' = config
             /\ ~(ld.pc = "L118" /\ ld'.pc # "L118")
             /\ ld'.outcome # "raised"]_vars

LifecycleMoves ==
    {<<"Uninitialized", "Loading">>, <<"Loading", "Ready">>,
     <<"Loading", "Failed">>, <<"Failed", "Loading">>}

\* C5: the service only moves Uninitialized -> Loading -> Ready and
\* Loading -> Failed -> Loading; a synthesize call with a valid text made in
\* a state other than Ready fails with ModelNotLoaded and yields no audio;
\* health and voices answer normally in every state.
C5_Lifecycle ==
    [][/\ (phase' # phase => <<phase, phase'>> \in LifecycleMoves)
       /\ (resp.op = "none" /\ resp'.op = "synthesize" /\ phase # "Ready"
             /\ resp'.req.kind = "text" /\ resp'.req.len <= MaxTextLength)
            => (resp'.synth = "ModelNotLoaded" /\ resp'.mime # "audio/wav")
       /\ (resp.op = "none" /\ resp'.op \in {"health", "voices"})
            => resp'.status = 200]_vars

\* C6: once the service is Ready, synthesize_speech succeeds for every text
\* of at most 1000 characters, and its sample rate and audio length equal
\* those of any earlier synthesis of the same (text, voice_id, speed).
C6_Deterministic ==
    (IsSynth /\ ValidText /\ resp.phase = "Ready")
        => /\ resp.synth = "ok"
           /\ (memo.set /\ memo.len = resp.req.len
                 /\ memo.voice = VoiceOf(resp.req) /\ memo.speed = resp.req.speed)
                => (memo.rate = resp.rate /\ memo.alen = resp.alen)

C6_Witness ==
    /\ IsSynth /\ ValidText /\ resp.phase = "Ready"
    /\ resp.req.len > 0
    /\ model = "m2"
    /\ memo.set /\ memo.len = resp.req.len
    /\ memo.voice = VoiceOf(resp.req) /\ memo.speed = resp.req.speed
    /\ resp.status = 200

\* C7: a synthesis for a voice_id that get_voices does not list fails with
\* SynthesisFailure and returns no audio.
C7_UnknownVoiceFails ==
    (IsSynth /\ ValidText /\ VoiceOf(resp.req) \notin VoiceCatalog
       /\ resp.synth \notin {"notcalled", "ModelNotLoaded"})
        => (resp.synth = "SynthesisFailure" /\ resp.status # 200)

\* C8: every temporary audio file belongs to a request whose response is
\* still being returned or transferred; completed requests leave none.
C8_NoLeakedTempFiles ==
    tmpFiles <= inflight + (IF IsSynth THEN 1 ELSE 0)

\* C10: POST /synthesize answers 400 to a missing body, a missing text and a
\* text over 1000 characters, 500 when the model is not loaded or synthesis
\* fails, and audio/wav only for a successful synthesis.
C10_StatusCodes ==
    IsSynth
        => /\ (resp.req.kind \in {"nobody", "emptyobj", "notext"}
                 \/ (resp.req.kind = "text" /\ resp.req.len > MaxTextLength))
                => resp.status = 400
           /\ (resp.synth \in {"ModelNotLoaded", "SynthesisFailure"}
                 \/ resp.err = "SaveFailed")
                => resp.status = 500
           /\ (resp.mime = "audio/wav") => (resp.synth = "ok" /\ resp.status = 200)

\* C15: a load_model call that raised has left model and config as they
\* were when it was called.
C15_FailedLoadChangesNothing ==
    ld.outcome = "raised" => (model = ld.model0 /\ config = ld.config0)

(***************************************************************************)
(* Properties of the recognition loop (SpecRec).                           *)
(***************************************************************************)
FinalIsLast ==
    \A i, j \in DOMAIN events :
        (i < j /\ events[i].utt = events[j].utt) => events[i].kind = "Partial"

C9_DecodeErrorNonFatal ==
    rec.err
        => /\ rec.pc = "loop"
           /\ rec.open
           /\ \E i \in DOMAIN events : events[i].kind = "DecodeError"

\* C13: two consecutive Partials of one utterance never carry the same text
\* (a Partial is printed only if its text differs from the last one printed).
C13_NoRepeatedPartial ==
    \A i \in DOMAIN events :
        (i + 1 \in DOMAIN events
           /\ events[i].kind = "Partial" /\ events[i + 1].kind = "Partial"
           /\ events[i].utt = events[i + 1].utt)
            => events[i].text # events[i + 1].text

\* C14: the chunks handed to the engine are exactly the chunks stream.read
\* returned, each once and in arrival order; every event stems from a chunk
\* that was fed, events appear in the order of their chunks, and no chunk
\* yields two events (so no Final is printed twice).
C14_FedOnceInOrder ==
    /\ rec.fed = rec.got
    /\ \A i, j \in DOMAIN rec.fed : i < j => rec.fed[i] < rec.fed[j]
    /\ \A i \in DOMAIN events : \E k \in DOMAIN rec.fed : rec.fed[k] = events[i].chunk
    /\ \A i, j \in DOMAIN events : i < j => events[i].chunk < events[j].chunk

C14_Witness ==
    /\ Len(rec.fed) >= 3
    /\ \E k \in DOMAIN rec.fed : k > 1 /\ rec.fed[k] > rec.fed[k - 1] + 1
    /\ \E i, j \in DOMAIN events :
          i < j /\ events[i].kind = "Final" /\ events[j].kind = "Final"
    /\ rec.err

(***************************************************************************)
(* Properties of the setup scripts and the server start (SpecSetup).       *)
(***************************************************************************)
\* The minimum each script states: 3.8 for setup_all and setup_kokoro, 3.7
\* for setup_vosk.
AtLeastMinimum(sc, v) ==
    IF sc = "vosk" THEN LessThan(v, TupleRhs(3, 7)) = "False"
                   ELSE LessThan(v, TupleRhs(3, 8)) = "False"

\* C16: a version check answers accept or reject without raising, and
\* accepts exactly the interpreters at or above the script's minimum.
C16_VersionCheckVerdict ==
    su.verdict # "none"
        => /\ su.verdict \in {"accept", "reject"}
           /\ (su.verdict = "accept") <=> AtLeastMinimum(su.script, host.py)

ChecksPass == AtLeastMinimum("all", host.py) /\ host.dotnet

\* C18: setup_all.main ends with status 1 only when the Python or the .NET
\* check fails; when both pass, steps 1..9 have each run once, in order, and
\* the run ends with "Setup Complete".
C18_AllMainRunsAllSteps ==
    (su.script = "all" /\ su.status # "none")
        => /\ (su.status = "1") => ~ChecksPass
           /\ ChecksPass => (su.how = "complete"
                               /\ su.steps = [k \in 1 .. TotalSteps |-> k])

C19_VoskModelsLoop ==
    /\ \A k \in DOMAIN vm.log :
          LET e == vm.log[k] IN
          /\ e.m = vm.sel[k]
          /\ e.exists = (e.m \in vm.dirs)
          /\ e.exists => (e.dl = "no" /\ e.ex = "no" /\ e.zip # "deleted")
          /\ ~e.exists => /\ e.dl # "no"
                          /\ (e.ex # "no") => (e.dl = "ok")
                          /\ (e.zip = "deleted") <=> (e.dl = "ok" /\ e.ex = "ok")
    /\ vm.pc = "done" => (Len(vm.log) = Len(vm.sel) /\ vm.ret = "True")

C19_Witness ==
    /\ vm.pc = "done"
    /\ Len(vm.log) = 3
    /\ vm.log[1].dl = "fail"
    /\ vm.log[2].exists
    /\ vm.log[3].zip = "deleted"

====
